---- MODULE Spec2Model ----
(***************************************************************************)
(* Model of src/create_subtitle.py: clean_words, the chunking loop and the *)
(* karaoke cue loop of create_ass_file, and format_time_ass.               *)
(*                                                                         *)
(* Texts are sequences of one-character strings.  Times are integers in    *)
(* milliseconds.  A chunk is a sequence of references to the dicts of the  *)
(* normalized list: the reference of words[k] (0-based in Python) is k+1.  *)
(* Loop counters i, chunk_idx and highlight_idx keep Python's 0-based      *)
(* values.  A run is either a call of create_ass_file or a direct call of  *)
(* clean_words (entry).                                                    *)
(***************************************************************************)
EXTENDS Integers, Sequences, FiniteSets, TLC

\* ------------------------------------------------------------------ bounds
MaxWords == 3
MaxDraws == 3

\* ------------------------------------------------------------ str helpers
Whitespace == {" "}

Digits == {"0", "1", "2", "3", "4", "5", "6", "7", "8", "9"}

LowerCase == <<"a", "b", "c", "d", "e", "f", "h", "t">>

UpperCase == <<"A", "B", "C", "D", "E", "F", "H", "T">>

RECURSIVE lstrip(_)
lstrip(s) ==
    IF s = <<>> THEN <<>>
    ELSE IF Head(s) \in Whitespace THEN lstrip(Tail(s)) ELSE s

RECURSIVE rstrip(_)
rstrip(s) ==
    IF s = <<>> THEN <<>>
    ELSE IF s[Len(s)] \in Whitespace THEN rstrip(SubSeq(s, 1, Len(s) - 1)) ELSE s

strip(s) == rstrip(lstrip(s))

upper_char(c) ==
    IF \E k \in 1..Len(LowerCase) : LowerCase[k] = c
    THEN UpperCase[CHOOSE k \in 1..Len(LowerCase) : LowerCase[k] = c]
    ELSE c

upper(s) == [k \in 1..Len(s) |-> upper_char(s[k])]

isdigit(c) == c \in Digits

endswith(s, c) == s # <<>> /\ s[Len(s)] = c

\* ---------------------------------------------------------- format_time_ass
\* seconds is given in milliseconds; the result is <<h, m, cc>> where cc is
\* the seconds field s = seconds % 60 printed with two decimals, in
\* hundredths (f"{s:05.2f}" rounds to the nearest hundredth).  The time
\* values of the model have no digit 5 in the millisecond place, so the
\* rounding never meets a tie.
format_time_ass(seconds) ==
    LET h  == seconds \div 3600000
        m  == (seconds % 3600000) \div 60000
        s  == seconds % 60000
    IN  <<h, m, (s + 5) \div 10>>

\* -------------------------------------------------------------- clean_words
punctuation_starters == {",", ".", "?", "!", ";", ":", "'"}

\* faulty variant of MergeIntoPrev: the start, not the end, is taken from
\* the merged word
MergeIntoPrev_MovesStart(cleaned, word, word_info) ==
    LET prev == cleaned[Len(cleaned)]
    IN  [cleaned EXCEPT ![Len(cleaned)] =
            [prev EXCEPT !.word  = rstrip(prev.word) \o word,
                         !.start = word_info.start]]

\* faulty variant of MergeIntoPrev: the merged text replaces the previous text
MergeIntoPrev_Replace(cleaned, word, word_info) ==
    LET prev == cleaned[Len(cleaned)]
    IN  [cleaned EXCEPT ![Len(cleaned)] =
            [prev EXCEPT !.word = word,
                         !.end  = word_info.end]]

\* faulty variant of MergeIntoPrev: the previous text is not right-trimmed
MergeIntoPrev_NoRstrip(cleaned, word, word_info) ==
    LET prev == cleaned[Len(cleaned)]
    IN  [cleaned EXCEPT ![Len(cleaned)] =
            [prev EXCEPT !.word = prev.word \o word,
                         !.end  = word_info.end]]

\* faulty variant of MergeIntoPrev: the end of the previous word is kept
MergeIntoPrev_KeepEnd(cleaned, word, word_info) ==
    LET prev == cleaned[Len(cleaned)]
    IN  [cleaned EXCEPT ![Len(cleaned)] =
            [prev EXCEPT !.word = rstrip(prev.word) \o word]]

\* prev['word'] = prev['word'].rstrip() + word ; prev['end'] = word_info['end']
MergeIntoPrev(cleaned, word, word_info) ==
    LET prev == cleaned[Len(cleaned)]
    IN  [cleaned EXCEPT ![Len(cleaned)] =
            [prev EXCEPT !.word = rstrip(prev.word) \o word,
                         !.end  = word_info.end]]

\* faulty variant of CleanWord: an empty word extends the previous word
CleanWord_EmptyExtends(cleaned, word_info) ==
    LET word == strip(word_info.word)
    IN  IF word = <<>>
        THEN (IF cleaned = <<>> THEN cleaned
              ELSE [cleaned EXCEPT ![Len(cleaned)].end = word_info.end])
        ELSE IF word[1] \in punctuation_starters /\ cleaned # <<>>
             THEN MergeIntoPrev(cleaned, word, word_info)
        ELSE IF /\ cleaned # <<>>
                /\ endswith(rstrip(cleaned[Len(cleaned)].word), "$")
                /\ (isdigit(word[1]) \/ word[1] \in punctuation_starters)
             THEN MergeIntoPrev(cleaned, word, word_info)
        ELSE Append(cleaned, word_info)

\* faulty variant of CleanWord: the $ test looks at the untrimmed previous text
CleanWord_DollarUntrimmed(cleaned, word_info) ==
    LET word == strip(word_info.word)
    IN  IF word = <<>> THEN cleaned
        ELSE IF word[1] \in punctuation_starters /\ cleaned # <<>>
             THEN MergeIntoPrev(cleaned, word, word_info)
        ELSE IF /\ cleaned # <<>>
                /\ endswith(cleaned[Len(cleaned)].word, "$")
                /\ (isdigit(word[1]) \/ word[1] \in punctuation_starters)
             THEN MergeIntoPrev(cleaned, word, word_info)
        ELSE Append(cleaned, word_info)

\* One iteration of "for word_info in words" (lines 41-65).
CleanWord(cleaned, word_info) ==
    LET word == strip(word_info.word)
    IN  IF word = <<>> THEN cleaned
        ELSE IF word[1] \in punctuation_starters /\ cleaned # <<>>
             THEN MergeIntoPrev(cleaned, word, word_info)
        ELSE IF /\ cleaned # <<>>
                /\ endswith(rstrip(cleaned[Len(cleaned)].word), "$")
                /\ (isdigit(word[1]) \/ word[1] \in punctuation_starters)
             THEN MergeIntoPrev(cleaned, word, word_info)
        ELSE Append(cleaned, word_info)

\* the value of start or end in a dict that has no such key: reading it
\* raises KeyError
Missing == -1

\* the iteration on word_info takes one of the two merge branches
Merges(cleaned, word_info) ==
    LET word == strip(word_info.word)
    IN  /\ word # <<>>
        /\ cleaned # <<>>
        /\ \/ word[1] \in punctuation_starters
           \/ /\ endswith(rstrip(cleaned[Len(cleaned)].word), "$")
              /\ isdigit(word[1])

\* lines 54 and 62 read word_info['end']: KeyError when the key is absent
CleanRaises(cleaned, word_info) ==
    Merges(cleaned, word_info) /\ word_info.end = Missing

\* lines 53 and 61 alone: the text is merged before the end is read
MergeText(cleaned, word) ==
    LET prev == cleaned[Len(cleaned)]
    IN  [cleaned EXCEPT ![Len(cleaned)] =
            [prev EXCEPT !.word = rstrip(prev.word) \o word]]

RECURSIVE CleanFrom(_, _, _)
CleanFrom(cleaned, ws, k) ==
    IF k > Len(ws) THEN cleaned
    ELSE CleanFrom(CleanWord(cleaned, ws[k]), ws, k + 1)

clean_words(ws) == IF ws = <<>> THEN ws ELSE CleanFrom(<<>>, ws, 1)

\* ------------------------------------------------------------ list slicing
\* Python's words[a:b] on a list of n items: negative indices count from the
\* end, both ends are clamped to 0..n.  The result is the sequence of
\* references lo+1 .. hi.
SliceIndex(k, n) ==
    IF k < 0 THEN (IF k + n < 0 THEN 0 ELSE k + n)
    ELSE (IF k > n THEN n ELSE k)

\* faulty variant of PySlice: the slice stops one item early
PySlice_StopsEarly(n, a, b) ==
    LET lo == SliceIndex(a, n)
        hi == SliceIndex(b - 1, n)
    IN  [j \in 1..(IF hi > lo THEN hi - lo ELSE 0) |-> lo + j]

PySlice(n, a, b) ==
    LET lo == SliceIndex(a, n)
        hi == SliceIndex(b, n)
    IN  [j \in 1..(IF hi > lo THEN hi - lo ELSE 0) |-> lo + j]

\* ------------------------------------------------------------- cue text
HighlightOn == "{\\rHighlight}"

HighlightOff == "{\\rDefault}"

\* " ".join(parts)
RECURSIVE JoinSpace(_)
JoinSpace(parts) ==
    IF parts = <<>> THEN <<>>
    ELSE IF Len(parts) = 1 THEN parts[1]
    ELSE parts[1] \o <<" ">> \o JoinSpace(Tail(parts))

\* faulty variant of TextPart: the highlighted word is not followed by the reset
TextPart_NoReset(word_info, idx, highlight_idx) ==
    LET word_text == upper(strip(word_info.word))
    IN  IF idx = highlight_idx
        THEN <<HighlightOn>> \o word_text
        ELSE word_text

\* lines 168-178: chunk is a sequence of references into ws
TextPart(word_info, idx, highlight_idx) ==
    LET word_text == upper(strip(word_info.word))
    IN  IF idx = highlight_idx
        THEN <<HighlightOn>> \o word_text \o <<HighlightOff>>
        ELSE word_text

text_content(ws, chunk, highlight_idx) ==
    JoinSpace([k \in 1..Len(chunk) |-> TextPart(ws[chunk[k]], k - 1, highlight_idx)])

\* ------------------------------------------------------------------ inputs
Word(w, s, e) == [word |-> w, start |-> s, end |-> e]

HasMissing(ws) ==
    \E k \in 1..Len(ws) : ws[k].start = Missing \/ ws[k].end = Missing

\* word texts exercising every branch of clean_words
TextPool ==
    { <<"a", " ">>, <<" ", ",", "1">>, <<"$", " ">>, <<"1">>, <<" ">>, <<>> }

\* (start, end) pairs: ordinary, following on, and end before start
TimePairs == { <<0, 400>>, <<400, 900>>, <<900, 400>> }

TimedTexts == { <<"a">>, <<",">> }

\* lists whose k-th word spans (k-1) s .. (k-1) s + 400 ms, any text
TextLists ==
    UNION { { [k \in 1..n |-> Word(t[k], (k - 1) * 1000, (k - 1) * 1000 + 400)] :
                t \in [1..n -> TextPool] } : n \in 0..MaxWords }

\* lists with any timing, ordered or not, and texts drawn from texts
TimedListsOf(texts) ==
    UNION { { [k \in 1..n |-> Word(t[k], p[k][1], p[k][2])] :
                t \in [1..n -> texts], p \in [1..n -> TimePairs] } :
            n \in 1..MaxWords }

TimedLists == TimedListsOf(TimedTexts)

\* the same without words that merge
PlainLists == TimedListsOf({ <<"a">> })

\* lists of words a and "," in which one word lacks its start or its end
GapLists ==
    UNION { { [k \in 1..n |->
                 Word(t[k],
                      IF k = g /\ key = "start" THEN Missing ELSE (k - 1) * 1000,
                      IF k = g /\ key = "end" THEN Missing ELSE (k - 1) * 1000 + 400)] :
                t \in [1..n -> TimedTexts], g \in 1..n, key \in {"start", "end"} } :
            n \in 1..MaxWords }

\* (start, end) pairs around a full minute and a full hour
BoundaryPairs == { <<59000, 59996>>, <<59996, 60004>>, <<3599996, 3600004>> }

\* lists of words a timed around a full minute or a full hour
BoundaryLists ==
    UNION { { [k \in 1..n |-> Word(<<"a">>, p[k][1], p[k][2])] :
                p \in [1..n -> BoundaryPairs] } : n \in 1..MaxWords }

\* spec.md section 8, the currency scenario
CurrencyScenario ==
    << Word(<<"t", "h", "e">>, 0, 300), Word(<<"$">>, 300, 400),
       Word(<<"1">>, 400, 500), Word(<<",">>, 500, 500),
       Word(<<"0", "0", "0">>, 500, 700), Word(<<"f", "e", "e">>, 800, 1000) >>

\* spec.md section 8, the two-chunk scenario
TwoChunkScenario ==
    << Word(<<"A">>, 0, 1000), Word(<<"B">>, 1000, 2000),
       Word(<<"C">>, 2000, 3000), Word(<<"D">>, 3000, 4000) >>

\* (chunk_size_min, chunk_size_max): the defaults (2, 3) and other valid
\* pairs; (2, 1), which makes random.randint raise; (0, 1) and (-1, 2), which
\* the function accepts although chunk_size_min < 1
TextConfigs == { <<2, 3>>, <<1, 2>>, <<2, 1>> }

TimedConfigs == { <<1, 2>> }

PlainConfigs == { <<-1, 2>>, <<0, 1>> }

ScenarioConfigs == { <<2, 2>>, <<2, 3>> }

GapConfigs == { <<2, 3>>, <<1, 2>> }

BoundaryConfigs == { <<2, 3>> }

Inputs ==
    (TextLists \X TextConfigs)
        \cup (TimedLists \X TimedConfigs)
        \cup (PlainLists \X PlainConfigs)
        \cup ({CurrencyScenario, TwoChunkScenario} \X ScenarioConfigs)
        \cup (GapLists \X GapConfigs)
        \cup (BoundaryLists \X BoundaryConfigs)

\* word lists given to a direct call of clean_words
DirectInputs == TextLists \cup GapLists \cup {CurrencyScenario}

ValidConfig(lo, hi) == 1 <= lo /\ lo <= hi

\* ------------------------------------------------------------------- state
VARIABLES
    arg_words,       \* the caller's list passed as words
    chunk_size_min, chunk_size_max,
    pc,              \* position in create_ass_file
    header,          \* header lines written to f so far
    cleaned,         \* clean_words: the list being built
    ci,              \* clean_words: number of input words consumed
    words,           \* the local words (rebound at line 127)
    i, chunks,       \* chunking loop
    draws,           \* number of random.randint calls made
    chunk_idx, highlight_idx,
    dialogue,        \* Dialogue lines written to f so far
    result,          \* "none", "filename" (returned) or "ValueError" (raised)
    entry,           \* the function called: "create_ass_file" or "clean_words"
    caller_words,    \* the dicts of the caller's list as they are now
    owner,           \* for each entry of cleaned: 0 for a dict made by copy(),
                     \* k when it is the k-th dict of the caller's list
    out              \* what a direct call of clean_words returned

\* transcribe_video.py: the module globals and the calls of get_model
VARIABLES
    g_model,         \* _model: "None" or the size the cached model was loaded for
    g_model_size,    \* _model_size: "None" or a size
    gm               \* for each thread, its call of get_model: position, the
                     \* model_size asked for, the model returned, calls made

\* subtitle_service.py: one call of process_single_video
VARIABLES
    psv_pc,          \* position in process_single_video
    temp_files,      \* which of temp_input, temp_ass, temp_output exist
    output_file,     \* whether anything was copied to output_path
    psv_result,      \* "none", "True", "False" or "raised"
    steps            \* the steps of the try block completed so far, in order

\* gui.py: a SubtitleTab and its SubtitleWorker
VARIABLES
    is_cancelled,    \* SubtitleWorker._is_cancelled
    run_pc,          \* position in SubtitleWorker.run
    run_locals,      \* total, i, success of run, and the number of videos started
    signals,         \* finished / error signals emitted and not yet delivered
    ui               \* SubtitleTab: busy state, self.worker, terminal signals
                     \* received for the current worker, workers started

caption_vars == <<arg_words, chunk_size_min, chunk_size_max, pc, header, cleaned, ci,
                  words, i, chunks, draws, chunk_idx, highlight_idx, dialogue, result,
                  entry, caller_words, owner, out>>

model_vars == <<g_model, g_model_size, gm>>

service_vars == <<psv_pc, temp_files, output_file, psv_result, steps>>

worker_vars == <<is_cancelled, run_pc, run_locals, signals, ui>>

\* what create_subtitle.py does not touch
other_vars == <<model_vars, service_vars, worker_vars>>

vars == <<caption_vars, model_vars, service_vars, worker_vars>>

\* no call of get_model is under way and nothing is cached (lines 11-12)
ModelIdle ==
    /\ g_model = "None"
    /\ g_model_size = "None"
    /\ gm = <<>>

\* no call of process_single_video is under way
ServiceIdle ==
    /\ psv_pc = "idle"
    /\ temp_files = {}
    /\ output_file = "absent"
    /\ psv_result = "none"
    /\ steps = <<>>

\* the subtitle tab is not in use
WorkerIdle ==
    /\ is_cancelled = FALSE
    /\ run_pc = "none"
    /\ run_locals = <<>>
    /\ signals = <<>>
    /\ ui = <<>>

HeaderLines ==
    << "[Script Info]", "ScriptType: v4.00+", "PlayResX: 1080", "PlayResY: 1920", "",
       "[V4+ Styles]", "Format: Name, ...", "Style: Default", "Style: Highlight", "",
       "[Events]", "Format: Layer, Start, End, Style, Name, MarginL, MarginR, MarginV, Effect, Text" >>

Init ==
    /\ \/ /\ entry = "create_ass_file"
          /\ pc = "open"
          /\ \E inp \in Inputs :
                /\ arg_words = inp[1]
                /\ chunk_size_min = inp[2][1]
                /\ chunk_size_max = inp[2][2]
       \/ /\ entry = "clean_words"
          /\ pc = "clean_call"
          /\ arg_words \in DirectInputs
          /\ chunk_size_min = 2
          /\ chunk_size_max = 3
    /\ words = arg_words
    /\ caller_words = arg_words
    /\ owner = <<>>
    /\ out = <<>>
    /\ header = <<>>
    /\ cleaned = <<>>
    /\ ci = 0
    /\ i = 0
    /\ chunks = <<>>
    /\ draws = 0
    /\ chunk_idx = 0
    /\ highlight_idx = 0
    /\ dialogue = <<>>
    /\ result = "none"
    /\ ModelIdle
    /\ ServiceIdle
    /\ WorkerIdle

\* ----------------------------------------------------------------- actions
\* lines 101-120: open the file and write script info, styles, events format
WriteHeader ==
    /\ pc = "open"
    /\ header' = HeaderLines
    /\ pc' = "check"
    /\ UNCHANGED <<arg_words, chunk_size_min, chunk_size_max, cleaned, ci, words,
                   i, chunks, draws, chunk_idx, highlight_idx, dialogue, result>>
    /\ UNCHANGED <<entry, caller_words, owner, out>>
    /\ UNCHANGED other_vars

\* lines 122-124: if not words: return filename
ReturnEmpty ==
    /\ pc = "check"
    /\ words = <<>>
    /\ pc' = "done"
    /\ result' = "filename"
    /\ UNCHANGED <<arg_words, chunk_size_min, chunk_size_max, header, cleaned, ci,
                   words, i, chunks, draws, chunk_idx, highlight_idx, dialogue>>
    /\ UNCHANGED <<entry, caller_words, owner, out>>
    /\ UNCHANGED other_vars

\* a direct call of clean_words with an empty list, lines 35-36:
\* if not words: return words
CleanReturnEmpty ==
    /\ pc = "clean_call"
    /\ words = <<>>
    /\ out' = words
    /\ pc' = "returned"
    /\ UNCHANGED <<arg_words, chunk_size_min, chunk_size_max, header, cleaned, ci, words,
                   i, chunks, draws, chunk_idx, highlight_idx, dialogue, result,
                   entry, caller_words, owner>>
    /\ UNCHANGED other_vars

\* clean_words starts its loop (lines 35-39), called directly or from
\* line 127, where words is not empty
CleanEnter ==
    /\ pc \in {"check", "clean_call"}
    /\ words # <<>>
    /\ cleaned' = <<>>
    /\ owner' = <<>>
    /\ ci' = 0
    /\ pc' = "clean"
    /\ UNCHANGED <<arg_words, chunk_size_min, chunk_size_max, header, words,
                   i, chunks, draws, chunk_idx, highlight_idx, dialogue, result,
                   entry, caller_words, out>>
    /\ UNCHANGED other_vars

\* faulty variant of CopyOf: the input dict itself is appended
CopyOf_Alias(k) == k

\* line 65, word_info.copy(): the dict appended for the k-th input word is a
\* new one
CopyOf(k) == 0

\* the owners of the entries of cleaned after the k-th input word
OwnerAfter(cl, ow, word_info, k) ==
    IF Len(CleanWord(cl, word_info)) > Len(cl) THEN Append(ow, CopyOf(k)) ELSE ow

\* the caller's dicts after the iteration: a merge (lines 53-54, 61-62)
\* writes into the dict cleaned[-1] refers to
CallerAfter(cw, ow, before, after) ==
    IF Len(after) = Len(before) /\ after # before /\ ow[Len(ow)] # 0
    THEN [cw EXCEPT ![ow[Len(ow)]] = after[Len(after)]]
    ELSE cw

\* lines 41-65: one iteration of the loop over the input words
CleanStep ==
    /\ pc = "clean"
    /\ ci < Len(words)
    /\ ~CleanRaises(cleaned, words[ci + 1])
    /\ cleaned' = CleanWord(cleaned, words[ci + 1])
    /\ owner' = OwnerAfter(cleaned, owner, words[ci + 1], ci + 1)
    /\ caller_words' = CallerAfter(caller_words, owner, cleaned, cleaned')
    /\ ci' = ci + 1
    /\ UNCHANGED <<arg_words, chunk_size_min, chunk_size_max, pc, header, words,
                   i, chunks, draws, chunk_idx, highlight_idx, dialogue, result,
                   entry, out>>
    /\ UNCHANGED other_vars

\* lines 53-54 and 61-62 on a word without end: the text is merged, then
\* word_info['end'] raises KeyError, which no caller in between catches
CleanRaise ==
    /\ pc = "clean"
    /\ ci < Len(words)
    /\ CleanRaises(cleaned, words[ci + 1])
    /\ cleaned' = MergeText(cleaned, strip(words[ci + 1].word))
    /\ caller_words' = CallerAfter(caller_words, owner, cleaned, cleaned')
    /\ pc' = "raised"
    /\ result' = "KeyError"
    /\ UNCHANGED <<arg_words, chunk_size_min, chunk_size_max, header, ci, words,
                   i, chunks, draws, chunk_idx, highlight_idx, dialogue,
                   entry, owner, out>>
    /\ UNCHANGED other_vars

\* line 68 and line 127: words = clean_words(words); lines 130-131
CleanReturn ==
    /\ pc = "clean"
    /\ entry = "create_ass_file"
    /\ ci = Len(words)
    /\ words' = cleaned
    /\ i' = 0
    /\ chunks' = <<>>
    /\ pc' = "chunk"
    /\ UNCHANGED <<arg_words, chunk_size_min, chunk_size_max, header, cleaned, ci,
                   draws, chunk_idx, highlight_idx, dialogue, result,
                   entry, caller_words, owner, out>>
    /\ UNCHANGED other_vars

\* line 68 of a direct call: return cleaned
CleanReturnDirect ==
    /\ pc = "clean"
    /\ entry = "clean_words"
    /\ ci = Len(words)
    /\ out' = cleaned
    /\ pc' = "returned"
    /\ UNCHANGED <<arg_words, chunk_size_min, chunk_size_max, header, cleaned, ci, words,
                   i, chunks, draws, chunk_idx, highlight_idx, dialogue, result,
                   entry, caller_words, owner>>
    /\ UNCHANGED other_vars

\* faulty variant of ChunkRaise: the size is drawn before the loop's test
ChunkRaise_BeforeLoopTest ==
    /\ pc = "chunk"
    /\ chunk_size_min > chunk_size_max
    /\ pc' = "raised"
    /\ result' = "ValueError"
    /\ UNCHANGED <<arg_words, chunk_size_min, chunk_size_max, header, cleaned, ci,
                   words, i, chunks, draws, chunk_idx, highlight_idx, dialogue>>
    /\ UNCHANGED <<entry, caller_words, owner, out>>
    /\ UNCHANGED other_vars

\* line 133 when chunk_size_min > chunk_size_max: random.randint raises
ChunkRaise ==
    /\ pc = "chunk"
    /\ i < Len(words)
    /\ chunk_size_min > chunk_size_max
    /\ pc' = "raised"
    /\ result' = "ValueError"
    /\ UNCHANGED <<arg_words, chunk_size_min, chunk_size_max, header, cleaned, ci,
                   words, i, chunks, draws, chunk_idx, highlight_idx, dialogue>>
    /\ UNCHANGED <<entry, caller_words, owner, out>>
    /\ UNCHANGED other_vars

\* faulty variant of NextChunks: the slice has no upper end (words[i:])
NextChunks_Unbounded(chs, ws, at, chunk_size) ==
    LET chunk == PySlice(Len(ws), at, Len(ws))
    IN  IF chunk # <<>> THEN Append(chs, chunk) ELSE chs

\* lines 134-137 for one drawn chunk_size
NextChunks(chs, ws, at, chunk_size) ==
    LET chunk == PySlice(Len(ws), at, at + chunk_size)
    IN  IF chunk # <<>> THEN Append(chs, chunk) ELSE chs

\* faulty variant of ChunkStep: the cursor moves only when a chunk was added
\* by a draw above chunk_size_min
ChunkStep_CursorStays ==
    /\ pc = "chunk"
    /\ i < Len(words)
    /\ draws < MaxDraws
    /\ \E chunk_size \in chunk_size_min..chunk_size_max :
          /\ chunks' = NextChunks(chunks, words, i, chunk_size)
          /\ i' = i + (chunk_size - chunk_size_min)
    /\ draws' = draws + 1
    /\ UNCHANGED <<arg_words, chunk_size_min, chunk_size_max, pc, header, cleaned, ci,
                   words, chunk_idx, highlight_idx, dialogue, result>>
    /\ UNCHANGED <<entry, caller_words, owner, out>>
    /\ UNCHANGED other_vars

\* lines 132-137: one iteration of the chunking loop
ChunkStep ==
    /\ pc = "chunk"
    /\ i < Len(words)
    /\ draws < MaxDraws
    /\ \E chunk_size \in chunk_size_min..chunk_size_max :
          /\ chunks' = NextChunks(chunks, words, i, chunk_size)
          /\ i' = i + chunk_size
    /\ draws' = draws + 1
    /\ UNCHANGED <<arg_words, chunk_size_min, chunk_size_max, pc, header, cleaned, ci,
                   words, chunk_idx, highlight_idx, dialogue, result>>
    /\ UNCHANGED <<entry, caller_words, owner, out>>
    /\ UNCHANGED other_vars

\* the while loop ends; line 140 starts the cue loops
ChunkDone ==
    /\ pc = "chunk"
    /\ i >= Len(words)
    /\ chunk_idx' = 0
    /\ highlight_idx' = 0
    /\ pc' = "emit"
    /\ UNCHANGED <<arg_words, chunk_size_min, chunk_size_max, header, cleaned, ci,
                   words, i, chunks, draws, dialogue, result>>
    /\ UNCHANGED <<entry, caller_words, owner, out>>
    /\ UNCHANGED other_vars

\* faulty variant of EndTime: a chunk's last cue runs to the end, not the
\* start, of the following chunk's first word
EndTime_NextChunkFirstEnd(ws, chs, cidx, hidx) ==
    LET chunk == chs[cidx + 1]
        highlighted_word == ws[chunk[hidx + 1]]
        is_last_word_in_chunk == (hidx = Len(chunk) - 1)
    IN  IF is_last_word_in_chunk
        THEN IF cidx + 1 < Len(chs)
             THEN ws[chs[cidx + 2][1]].end
             ELSE highlighted_word.end
        ELSE ws[chunk[hidx + 2]].start

\* faulty variant of EndTime: the last word of a chunk keeps its own end
\* (as create_ass_file of subtitle_service.py does for every word)
EndTime_OwnEndAtChunkEnd(ws, chs, cidx, hidx) ==
    LET chunk == chs[cidx + 1]
        highlighted_word == ws[chunk[hidx + 1]]
        is_last_word_in_chunk == (hidx = Len(chunk) - 1)
    IN  IF is_last_word_in_chunk
        THEN highlighted_word.end
        ELSE ws[chunk[hidx + 2]].start

\* lines 142-162: the end time of the cue for chunk[highlight_idx]
EndTime(ws, chs, cidx, hidx) ==
    LET chunk == chs[cidx + 1]
        highlighted_word == ws[chunk[hidx + 1]]
        is_last_word_in_chunk == (hidx = Len(chunk) - 1)
    IN  IF is_last_word_in_chunk
        THEN IF cidx + 1 < Len(chs)
             THEN ws[chs[cidx + 2][1]].start
             ELSE highlighted_word.end
        ELSE ws[chunk[hidx + 2]].start

\* lines 147-179: the Dialogue line for chunk[highlight_idx]
Cue(ws, chs, cidx, hidx) ==
    LET chunk == chs[cidx + 1]
        start_time == ws[chunk[hidx + 1]].start
        end_time == EndTime(ws, chs, cidx, hidx)
    IN  [ chunk_idx |-> cidx, highlight_idx |-> hidx,
          start_time |-> start_time, end_time |-> end_time,
          start_str |-> format_time_ass(start_time),
          end_str |-> format_time_ass(end_time),
          style |-> "Default",
          text |-> text_content(ws, chunk, hidx) ]

\* the reads of one iteration of the inner loop that can raise KeyError:
\* line 143 before the first cue of a chunk, line 148, lines 158 and 162
CueRaises(ws, chs, cidx, hidx) ==
    \/ /\ hidx = 0
       /\ cidx + 1 < Len(chs)
       /\ ws[chs[cidx + 2][1]].start = Missing
    \/ ws[chs[cidx + 1][hidx + 1]].start = Missing
    \/ EndTime(ws, chs, cidx, hidx) = Missing

\* one iteration of the inner for loop: write one Dialogue line
EmitCue ==
    /\ pc = "emit"
    /\ chunk_idx < Len(chunks)
    /\ ~CueRaises(words, chunks, chunk_idx, highlight_idx)
    /\ dialogue' = Append(dialogue, Cue(words, chunks, chunk_idx, highlight_idx))
    /\ IF highlight_idx + 1 < Len(chunks[chunk_idx + 1])
       THEN /\ highlight_idx' = highlight_idx + 1
            /\ chunk_idx' = chunk_idx
       ELSE /\ highlight_idx' = 0
            /\ chunk_idx' = chunk_idx + 1
    /\ UNCHANGED <<arg_words, chunk_size_min, chunk_size_max, pc, header, cleaned, ci,
                   words, i, chunks, draws, result>>
    /\ UNCHANGED <<entry, caller_words, owner, out>>
    /\ UNCHANGED other_vars

\* a start or an end read in the cue loops is absent: KeyError leaves
\* create_ass_file with the lines written so far in the file
EmitRaise ==
    /\ pc = "emit"
    /\ chunk_idx < Len(chunks)
    /\ CueRaises(words, chunks, chunk_idx, highlight_idx)
    /\ pc' = "raised"
    /\ result' = "KeyError"
    /\ UNCHANGED <<arg_words, chunk_size_min, chunk_size_max, header, cleaned, ci,
                   words, i, chunks, draws, chunk_idx, highlight_idx, dialogue,
                   entry, caller_words, owner, out>>
    /\ UNCHANGED other_vars

\* lines 181-182: the loops are over, return filename
Return ==
    /\ pc = "emit"
    /\ chunk_idx = Len(chunks)
    /\ pc' = "done"
    /\ result' = "filename"
    /\ UNCHANGED <<arg_words, chunk_size_min, chunk_size_max, header, cleaned, ci,
                   words, i, chunks, draws, chunk_idx, highlight_idx, dialogue>>
    /\ UNCHANGED <<entry, caller_words, owner, out>>
    /\ UNCHANGED other_vars

Next ==
    \/ WriteHeader
    \/ ReturnEmpty
    \/ CleanReturnEmpty
    \/ CleanEnter
    \/ CleanStep
    \/ CleanRaise
    \/ CleanReturn
    \/ CleanReturnDirect
    \/ ChunkRaise
    \/ ChunkStep
    \/ ChunkDone
    \/ EmitCue
    \/ EmitRaise
    \/ Return

Spec == Init /\ [][Next]_vars

TypeOK ==
    /\ pc \in {"open", "check", "clean_call", "clean", "chunk", "emit", "done",
              "returned", "raised"}
    /\ entry \in {"create_ass_file", "clean_words"}
    /\ Len(owner) = Len(cleaned)
    /\ result \in {"none", "filename", "ValueError", "KeyError"}
    /\ ci \in 0..Len(arg_words)
    /\ draws \in 0..MaxDraws

\* -------------------------------------------------------------- properties
RECURSIVE Flatten(_)
Flatten(chs) == IF chs = <<>> THEN <<>> ELSE Head(chs) \o Flatten(Tail(chs))

\* the reference (1-based place in the normalized list) a cue highlights
RefOf(c) == chunks[c.chunk_idx + 1][c.highlight_idx + 1]

IsLastInChunk(c) == c.highlight_idx + 1 = Len(chunks[c.chunk_idx + 1])

IsLastOfLast(c) == IsLastInChunk(c) /\ c.chunk_idx + 1 = Len(chunks)

Cues == { dialogue[k] : k \in 1..Len(dialogue) }

IsPrefix(s, t) == Len(s) <= Len(t) /\ SubSeq(t, 1, Len(s)) = s

\* C1: every cue whose highlighted word is not the last word of the
\* normalized sequence ends at the start of the next word of the normalized
\* sequence, for every word list and every sequence of chunk-size draws.
C1_EndIsNextWordStart ==
    \A c \in Cues :
        RefOf(c) < Len(words) => c.end_time = words[RefOf(c) + 1].start

\* C2: the cue of the last word of the last chunk ends at that word's own
\* (normalized) end, and it is the only cue whose end comes from the word's
\* own end: every other cue ends at the start of the word that follows it in
\* its chunk or, at the end of a chunk, of the first word of the next chunk.
C2_OnlyLastCueUsesOwnEnd ==
    /\ \A c \in Cues :
          IF IsLastOfLast(c)
          THEN c.end_time = words[RefOf(c)].end
          ELSE IF IsLastInChunk(c)
          THEN c.end_time = words[chunks[c.chunk_idx + 2][1]].start
          ELSE c.end_time = words[chunks[c.chunk_idx + 1][c.highlight_idx + 2]].start
    /\ \A j, k \in 1..Len(dialogue) :
          IsLastOfLast(dialogue[j]) /\ IsLastOfLast(dialogue[k]) => j = k

\* a finished run with at least two chunks where the last word was extended
\* by a merge, so that its own end differs from every start
C2_Witness ==
    /\ pc = "done"
    /\ Len(chunks) >= 2
    /\ \E c \in Cues : IsLastOfLast(c) /\ c.end_time > arg_words[Len(arg_words) - 1].end
                                       /\ c.start_time = arg_words[Len(arg_words) - 1].start
    /\ \E c \in Cues : ~IsLastOfLast(c) /\ c.end_time # words[RefOf(c)].end

\* an iteration of the loop of clean_words is being taken
CleanIteration == pc = "clean" /\ ci' = ci + 1

LastOf(seq) == seq[Len(seq)]

\* cleaned' is cleaned with word merged into its last entry
MergedInto(word, word_info) ==
    /\ Len(cleaned') = Len(cleaned)
    /\ \A k \in 1..(Len(cleaned) - 1) : cleaned'[k] = cleaned[k]
    /\ LastOf(cleaned').word = rstrip(LastOf(cleaned).word) \o word
    /\ LastOf(cleaned').end = word_info.end
    /\ LastOf(cleaned').start = LastOf(cleaned).start

C4_DollarMerges ==
    [][ CleanIteration =>
          LET word_info == words[ci + 1]
              word == strip(word_info.word)
              punct == word # <<>> /\ word[1] \in {",", ".", "?", "!", ";", ":", "'"}
              digit == word # <<>> /\ word[1] \in {"0", "1", "2", "3", "4", "5", "6", "7", "8", "9"}
              dollar == /\ cleaned # <<>>
                        /\ rstrip(LastOf(cleaned).word) # <<>>
                        /\ LastOf(rstrip(LastOf(cleaned).word)) = "$"
          IN  /\ (dollar /\ (digit \/ punct)) => MergedInto(word, word_info)
              /\ Len(cleaned') = Len(cleaned) + 1 =>
                    /\ cleaned' = Append(cleaned, word_info)
                    /\ ~(punct /\ cleaned # <<>>)
                    /\ ~(dollar /\ (digit \/ punct)) ]_vars

\* the word "1" has just been merged into "$ ", giving "$1"
C4_Witness ==
    /\ pc = "clean"
    /\ ci >= 2
    /\ cleaned # <<>>
    /\ words[ci].word = <<"1">>
    /\ LastOf(cleaned).word = <<"$", "1">>
    /\ LastOf(cleaned).end = words[ci].end
    /\ LastOf(cleaned).start < words[ci].start

Texts(ws) == [k \in 1..Len(ws) |-> ws[k].word]

\* C5 as claimed: the currency scenario normalizes to the three words
\* the, $1,000, fee, the middle one spanning 0.3 - 0.7.
C5_ThreeWords ==
    (arg_words = CurrencyScenario /\ pc = "chunk") =>
        /\ Texts(words) = << <<"t", "h", "e">>, <<"$", "1", ",", "0", "0", "0">>,
                             <<"f", "e", "e">> >>
        /\ words[2].start = 300
        /\ words[2].end = 700

\* C5 as amended: the currency scenario normalizes to the four words
\* the, $1, (0.3 - 0.5), 000 (0.5 - 0.7), fee: the tokens $, 1 and the comma
\* are merged, and 000 stays a word of its own because the merged text no
\* longer ends with $.
C5_FourWords ==
    (arg_words = CurrencyScenario /\ pc = "chunk") =>
        words = << Word(<<"t", "h", "e">>, 0, 300), Word(<<"$", "1", ",">>, 300, 500),
                   Word(<<"0", "0", "0">>, 500, 700), Word(<<"f", "e", "e">>, 800, 1000) >>

C5_Witness == arg_words = CurrencyScenario /\ pc = "chunk" /\ Len(words) = 4

Iota(n) == [k \in 1..n |-> k]

\* C6: with 1 <= chunk_size_min <= chunk_size_max the chunks, concatenated
\* in order, are exactly the normalized words: while the loop runs they
\* cover the words before the cursor, each once and in order, and when it is
\* over they cover all of them.
C6_ChunksPartitionWords ==
    ValidConfig(chunk_size_min, chunk_size_max) =>
        /\ pc = "chunk" =>
              Flatten(chunks) = Iota(IF i < Len(words) THEN i ELSE Len(words))
        /\ pc \in {"emit", "done"} =>
              /\ Flatten(chunks) = Iota(Len(words))
              /\ [k \in 1..Len(Flatten(chunks)) |-> words[Flatten(chunks)[k]]] = words

\* three words cut into two chunks
C6_Witness ==
    /\ ValidConfig(chunk_size_min, chunk_size_max)
    /\ pc = "emit"
    /\ Len(words) = 3
    /\ Len(chunks) = 2

\* C7: with 1 <= chunk_size_min <= chunk_size_max every chunk is non-empty
\* and at most chunk_size_max long, and every chunk but the last is at least
\* chunk_size_min long.
C7_ChunkLengths ==
    ValidConfig(chunk_size_min, chunk_size_max) =>
        \A k \in 1..Len(chunks) :
            /\ Len(chunks[k]) >= 1
            /\ Len(chunks[k]) <= chunk_size_max
            /\ (k < Len(chunks) \/ (pc = "chunk" /\ i < Len(words))) =>
                   Len(chunks[k]) >= chunk_size_min

\* a final chunk shorter than chunk_size_min after a full one
C7_Witness ==
    /\ ValidConfig(chunk_size_min, chunk_size_max)
    /\ pc = "emit"
    /\ Len(chunks) >= 2
    /\ Len(chunks[1]) >= chunk_size_min
    /\ Len(LastOf(chunks)) < chunk_size_min

\* C8: a returned call has written one cue per normalized word, the k-th cue
\* starting at the k-th normalized word's start and highlighting that word,
\* and a written line is never changed.
C8_OneCuePerWord ==
    /\ [](pc = "done" =>
            /\ Len(dialogue) = Len(words)
            /\ \A k \in 1..Len(dialogue) :
                  /\ RefOf(dialogue[k]) = k
                  /\ dialogue[k].start_time = words[k].start
                  /\ dialogue[k].start_str = format_time_ass(words[k].start))
    /\ [][IsPrefix(dialogue, dialogue')]_vars

InputOrdered ==
    /\ \A k \in 1..Len(arg_words) : arg_words[k].start <= arg_words[k].end
    /\ \A k \in 1..(Len(arg_words) - 1) : arg_words[k].start <= arg_words[k + 1].start

\* C9: when every input word has start <= end and the input starts are
\* non-decreasing, every cue has start <= end, and start = end only when the
\* highlighted word starts together with its successor in the normalized
\* sequence or, for the last word, when its own start equals its end.
C9_CueTimesOrdered ==
    InputOrdered =>
        \A c \in Cues :
            /\ c.start_time <= c.end_time
            /\ c.start_time = c.end_time =>
                   IF RefOf(c) < Len(words)
                   THEN words[RefOf(c)].start = words[RefOf(c) + 1].start
                   ELSE words[RefOf(c)].start = words[RefOf(c)].end

CountOf(seq, tok) == Cardinality({k \in 1..Len(seq) : seq[k] = tok})

Markup == {HighlightOn, HighlightOff}

RECURSIVE Unmarked(_)
Unmarked(seq) ==
    IF seq = <<>> THEN <<>>
    ELSE IF Head(seq) \in Markup THEN Unmarked(Tail(seq))
    ELSE <<Head(seq)>> \o Unmarked(Tail(seq))

\* the upper-cased trimmed text of the k-th word of a chunk
Shown(chunk, k) == upper(strip(words[chunk[k]].word))

RECURSIVE ShownUpTo(_, _)
ShownUpTo(chunk, n) ==
    IF n = 0 THEN <<>>
    ELSE IF n = 1 THEN Shown(chunk, 1)
    ELSE ShownUpTo(chunk, n - 1) \o <<" ">> \o Shown(chunk, n)

\* C10: a cue text shows all the words of its chunk in order, with one
\* Highlight toggle right before the word at the highlighted position and
\* one Default reset right after it, and no other markup.
C10_OneHighlightedWord ==
    \A c \in Cues :
        LET chunk == chunks[c.chunk_idx + 1]
            h == c.highlight_idx + 1
            before == IF h = 1 THEN 0 ELSE Len(ShownUpTo(chunk, h - 1)) + 1
        IN  /\ Unmarked(c.text) = ShownUpTo(chunk, Len(chunk))
            /\ CountOf(c.text, HighlightOn) = 1
            /\ CountOf(c.text, HighlightOff) = 1
            /\ c.text[before + 1] = HighlightOn
            /\ SubSeq(c.text, before + 2, before + 1 + Len(Shown(chunk, h))) = Shown(chunk, h)
            /\ c.text[before + 2 + Len(Shown(chunk, h))] = HighlightOff

\* a cue of a chunk of three words highlighting the second one
C10_Witness ==
    \E c \in Cues :
        /\ Len(chunks[c.chunk_idx + 1]) = 3
        /\ c.highlight_idx = 1
        /\ c.text[1] # HighlightOn

\* ---------------------------------------------------------------- C11
\* the positions of the input words whose trimmed text is not empty
KeptIdx(ws) ==
    LET Kept(k) == strip(ws[k].word) # <<>>
    IN  SelectSeq(Iota(Len(ws)), Kept)

TextOf(word, trimmed) == IF trimmed THEN strip(word) ELSE word

\* the texts of the input words idx[a] .. idx[b], one after the other
RECURSIVE ConcatRun(_, _, _, _, _)
ConcatRun(ws, idx, a, b, trimmed) ==
    IF a > b THEN <<>>
    ELSE TextOf(ws[idx[a]].word, trimmed) \o ConcatRun(ws, idx, a + 1, b, trimmed)

\* outp cuts the kept words of ws into consecutive runs, one per output
\* word, in input order; S is the set of the positions where a run starts
PartitionsInput(ws, outp, trimmed) ==
    LET idx == KeptIdx(ws)
        m   == Len(idx)
    IN  /\ Len(outp) <= Len(ws)
        /\ \E S \in SUBSET (1..m) :
              /\ Cardinality(S) = Len(outp)
              /\ m > 0 => 1 \in S
              /\ \A s \in S :
                    LET j     == Cardinality({t \in S : t < s}) + 1
                        later == {t \in S : t > s}
                        e     == IF later = {} THEN m
                                 ELSE (CHOOSE t \in later : \A u \in later : t <= u) - 1
                    IN  TextOf(outp[j].word, trimmed) = ConcatRun(ws, idx, s, e, trimmed)

\* C11 as stated: after every iteration of the loop of clean_words, and in
\* what a direct call returns, the output has at most as many words as the
\* input read so far and cuts the non-empty input words into consecutive
\* runs, each output text being the concatenation of the texts of its run.
\* Violated: the texts are joined after trimming, "a " followed by " ,1"
\* gives "a,1".
C11_RunsOfTexts ==
    /\ pc = "clean" => PartitionsInput(SubSeq(arg_words, 1, ci), cleaned, FALSE)
    /\ pc = "returned" => PartitionsInput(arg_words, out, FALSE)

\* C11 amended: the same, each output text being, up to surrounding
\* whitespace, the concatenation of the trimmed texts of its run.
C11_RunsOfTrimmedTexts ==
    /\ pc = "clean" => PartitionsInput(SubSeq(arg_words, 1, ci), cleaned, TRUE)
    /\ pc = "returned" => PartitionsInput(arg_words, out, TRUE)

\* a direct call has returned fewer words than it was given, after a merge
\* of whitespace-padded texts and the drop of an empty word
C11_Witness ==
    /\ pc = "returned"
    /\ Len(out) >= 1
    /\ Len(KeptIdx(arg_words)) > Len(out)
    /\ Len(KeptIdx(arg_words)) < Len(arg_words)
    /\ \E k \in 1..Len(arg_words) : arg_words[k].word # strip(arg_words[k].word)
                                    /\ strip(arg_words[k].word) # <<>>

\* ---------------------------------------------------------------- C12
\* the word read by the iteration that has just run is empty once trimmed
ReadEmptyWord == pc = "clean" /\ ci >= 1 /\ strip(words[ci].word) = <<>>

\* C12: an iteration of clean_words on a word whose trimmed text is empty
\* leaves the accepted words as they are (no new word, no text or end
\* changed), and a call of clean_words with an empty sequence returns an
\* empty sequence and raises nothing.
C12_EmptyWordDropped ==
    /\ [][CleanIteration /\ strip(words[ci + 1].word) = <<>> => cleaned' = cleaned]_vars
    /\ [](entry = "clean_words" /\ arg_words = <<>> =>
              /\ pc \in {"clean_call", "returned"}
              /\ result = "none"
              /\ out = <<>>)

\* an empty word has just been read after a word was accepted
C12_Witness ==
    /\ ReadEmptyWord
    /\ cleaned # <<>>
    /\ cleaned = CleanFrom(<<>>, SubSeq(words, 1, ci - 1), 1)

\* ---------------------------------------------------------------- C13
Lines(seq) == { seq[k] : k \in 1..Len(seq) }

\* nothing to caption: the input is empty or every word is dropped
NothingToCaption == KeptIdx(arg_words) = <<>>

\* C13: a call of create_ass_file whose input is empty, or loses every word
\* in clean_words, raises nothing, builds no chunk, writes no Dialogue
\* line, and returns with the script-info header, the styles Default and
\* Highlight and the events format line in the document.
C13_NothingToCaption ==
    entry = "create_ass_file" /\ NothingToCaption =>
        /\ pc # "raised"
        /\ result # "ValueError"
        /\ chunks = <<>>
        /\ dialogue = <<>>
        /\ pc = "chunk" => i >= Len(words)
        /\ pc = "done" =>
              /\ result = "filename"
              /\ { "[Script Info]", "Style: Default", "Style: Highlight", "[Events]",
                   "Format: Layer, Start, End, Style, Name, MarginL, MarginR, MarginV, Effect, Text" }
                     \subseteq Lines(header)

\* the call has returned after clean_words dropped every word of a
\* non-empty input, with chunk sizes that could not have been drawn
C13_Witness ==
    /\ entry = "create_ass_file"
    /\ pc = "done"
    /\ arg_words # <<>>
    /\ NothingToCaption
    /\ chunk_size_min > chunk_size_max

\* ---------------------------------------------------------------- C14
\* C14: a call of create_ass_file with chunk_size_min < 1 or
\* chunk_size_min > chunk_size_max, on words of which at least one is not
\* empty, normalizes no word, builds no chunk, writes no Dialogue line and
\* never returns a document.
\* Violated: the sizes are never validated; (0, 1) and (-1, 2) run to the
\* end and write cues, (2, 1) raises only at the first draw, after
\* clean_words has run.
C14_InvalidConfigRejected ==
    (/\ entry = "create_ass_file"
     /\ ~ValidConfig(chunk_size_min, chunk_size_max)
     /\ ~NothingToCaption)
    => (/\ ci = 0
        /\ cleaned = <<>>
        /\ chunks = <<>>
        /\ dialogue = <<>>
        /\ pc \notin {"clean", "chunk", "emit", "done"})

\* ---------------------------------------------------------------- C15
\* C15: a call of create_ass_file on words of which one lacks its start or
\* its end never returns a document, and has written no Dialogue line when
\* it raises.
\* Violated: a timestamp is checked only when it is read; an end that is
\* never read is accepted, and a KeyError of the cue loops comes after the
\* cues of the earlier chunks were written.
C15_MissingTimestampRejected ==
    entry = "create_ass_file" /\ HasMissing(arg_words) =>
        /\ pc # "done"
        /\ result # "filename"
        /\ dialogue = <<>>

\* ---------------------------------------------------------------- C16
\* C16: clean_words leaves its input as it was: at every step of a call the
\* dicts of the caller's list have the text, start and end they had at the
\* call, and every accepted word is a dict of its own, none of the caller's.
C16_InputUnchanged ==
    /\ caller_words = arg_words
    /\ \A k \in 1..Len(owner) : owner[k] = 0

\* a direct call has returned after merging a word into an accepted one,
\* whose text and end differ from those of the input word it was copied from
C16_Witness ==
    /\ entry = "clean_words"
    /\ ~HasMissing(arg_words)
    /\ pc = "returned"
    /\ Len(out) >= 1
    /\ Len(out) < Len(KeptIdx(arg_words))
    /\ \E k \in 1..Len(arg_words) :
          /\ out[1].start = arg_words[k].start
          /\ out[1].word # arg_words[k].word
          /\ out[1].end # arg_words[k].end
          /\ caller_words[k] = arg_words[k]

\* ---------------------------------------------------------------- C18
\* a rendered time <<h, m, cc>> whose fields are in range: hours from 0,
\* minutes 00..59, whole seconds 00..59 (cc counts hundredths of a second)
FieldsInRange(t) ==
    /\ t[1] >= 0
    /\ t[2] \in 0..59
    /\ t[3] \div 100 \in 0..59
    /\ t[3] % 100 \in 0..99

\* C18: the start and the end of every Dialogue line, rendered by
\* format_time_ass from a non-negative time, have minutes in 00..59 and
\* whole seconds in 00..59.
\* Violated: the seconds are rounded to two decimals after the minutes were
\* cut off, 59.996 s is rendered 0:00:60.00.
C18_TimeFieldsInRange ==
    \A c \in Cues :
        /\ c.start_time >= 0 => FieldsInRange(c.start_str)
        /\ c.end_time >= 0 => FieldsInRange(c.end_str)

\* ---------------------------------------------------------------- C19
TwoChunkCall ==
    /\ entry = "create_ass_file"
    /\ arg_words = TwoChunkScenario
    /\ chunk_size_min = 2
    /\ chunk_size_max = 2

\* C19: with both chunk sizes 2 and the words A(0,1), B(1,2), C(2,3), D(3,4)
\* the chunks are [A,B] and [C,D], and the returned document has four
\* Dialogue lines, for A, B, C, D in this order, ending at 1, 2, 3 and 4 s.
C19_TwoChunkScenario ==
    TwoChunkCall =>
        /\ pc \in {"emit", "done"} => chunks = << <<1, 2>>, <<3, 4>> >>
        /\ pc = "done" =>
              /\ Len(dialogue) = 4
              /\ [k \in 1..4 |-> words[RefOf(dialogue[k])].word]
                    = << <<"A">>, <<"B">>, <<"C">>, <<"D">> >>
              /\ [k \in 1..4 |-> dialogue[k].start_time] = <<0, 1000, 2000, 3000>>
              /\ [k \in 1..4 |-> dialogue[k].end_time] = <<1000, 2000, 3000, 4000>>

\* the call on the scenario has returned
C19_Witness == TwoChunkCall /\ pc = "done" /\ result = "filename" /\ Len(dialogue) = 4

\* ---------------------------------------------------------------- C20
StartsWithPunctuation(word) ==
    strip(word) # <<>> /\ strip(word)[1] \in punctuation_starters

\* C20: no word accepted by clean_words, and no word of what it returns,
\* has a text that begins (after leading whitespace) with one of the
\* punctuation characters , . ? ! ; : '
\* Violated: a punctuation word is merged only when a word was accepted
\* before it; as the first non-empty word it is appended like any other.
C20_NoLeadingPunctuation ==
    /\ \A k \in 1..Len(cleaned) : ~StartsWithPunctuation(cleaned[k].word)
    /\ \A k \in 1..Len(out) : ~StartsWithPunctuation(out[k].word)

\* ---------------------------------------------------------------- C21
\* calls of create_ass_file with valid chunk sizes on words that all have
\* their start and end
LiveConfigs == { <<1, 2>>, <<2, 3>>, <<2, 2>> }

\* lists of words a and ",", the k-th spanning (k-1) s .. (k-1) s + 400 ms
LiveLists ==
    UNION { { [k \in 1..n |-> Word(t[k], (k - 1) * 1000, (k - 1) * 1000 + 400)] :
                t \in [1..n -> TimedTexts] } : n \in 0..MaxWords }

LiveInputs ==
    (LiveLists \X LiveConfigs)
        \cup ({CurrencyScenario, TwoChunkScenario} \X ScenarioConfigs)

LiveInit ==
    /\ entry = "create_ass_file"
    /\ pc = "open"
    /\ \E inp \in LiveInputs :
          /\ arg_words = inp[1]
          /\ chunk_size_min = inp[2][1]
          /\ chunk_size_max = inp[2][2]
    /\ words = arg_words
    /\ caller_words = arg_words
    /\ owner = <<>>
    /\ out = <<>>
    /\ header = <<>>
    /\ cleaned = <<>>
    /\ ci = 0
    /\ i = 0
    /\ chunks = <<>>
    /\ draws = 0
    /\ chunk_idx = 0
    /\ highlight_idx = 0
    /\ dialogue = <<>>
    /\ result = "none"
    /\ ModelIdle
    /\ ServiceIdle
    /\ WorkerIdle

\* the steps such a call can take: nothing raises in it
LiveNext ==
    \/ WriteHeader
    \/ ReturnEmpty
    \/ CleanEnter
    \/ CleanStep
    \/ CleanReturn
    \/ ChunkStep
    \/ ChunkDone
    \/ EmitCue
    \/ Return

\* a sequential program always takes its next step
LiveSpec == LiveInit /\ [][LiveNext]_vars /\ WF_vars(LiveNext)

ValidCall ==
    entry = "create_ass_file" /\ ValidConfig(chunk_size_min, chunk_size_max)

\* C21: with 1 <= chunk_size_min <= chunk_size_max every iteration of the
\* chunking loop moves the cursor forward, at most len(words) iterations
\* run and at most len(words) chunks are built, and the loop is left.
C21_ChunkLoopTerminates ==
    /\ [][ValidCall /\ pc = "chunk" /\ pc' = "chunk" => i' > i]_vars
    /\ [](ValidCall /\ pc \in {"chunk", "emit", "done"} =>
              /\ Len(chunks) <= draws
              /\ draws <= Len(words)
              /\ (pc = "chunk" /\ i < Len(words) => draws < MaxDraws))
    /\ (ValidCall /\ pc = "chunk" ~> pc = "emit")

\* the loop has been left after as many iterations as there are words
C21_Witness ==
    /\ ValidCall
    /\ pc = "emit"
    /\ Len(words) >= 3
    /\ draws = Len(words)
    /\ Len(chunks) = Len(words)

\* ---------------------------------------------------------------- C23
\* the Word invariants: every word has both timestamps and start <= end,
\* and the starts never decrease along the sequence
WordsWellFormed(ws) ==
    /\ ~HasMissing(ws)
    /\ \A k \in 1..Len(ws) : ws[k].start <= ws[k].end
    /\ \A k \in 1..(Len(ws) - 1) : ws[k].start <= ws[k + 1].start

\* C23: when the input of clean_words is well formed, the accepted words
\* are well formed after every iteration and so is what a call returns; an
\* iteration that adds no word leaves every start as it was.
C23_WordInvariantsKept ==
    /\ [](WordsWellFormed(arg_words) =>
              /\ WordsWellFormed(cleaned)
              /\ WordsWellFormed(out))
    /\ [][CleanIteration /\ Len(cleaned') = Len(cleaned) =>
              \A k \in 1..Len(cleaned) : cleaned'[k].start = cleaned[k].start]_vars

\* clean_words has merged a later word into an earlier one of a well formed
\* input of at least three words, and a word was accepted after the merge
C23_Witness ==
    /\ WordsWellFormed(arg_words)
    /\ Len(arg_words) >= 3
    /\ pc = "clean"
    /\ ci = Len(words)
    /\ Len(cleaned) >= 2
    /\ cleaned[1].end > arg_words[1].end
    /\ cleaned[1].start = arg_words[1].start

\* ================================================ transcribe_video.get_model
\* no call of create_ass_file or clean_words is under way
CaptionIdle ==
    /\ entry = "none"
    /\ pc = "none"
    /\ arg_words = <<>>
    /\ words = <<>>
    /\ caller_words = <<>>
    /\ chunk_size_min = 2
    /\ chunk_size_max = 3
    /\ owner = <<>>
    /\ out = <<>>
    /\ header = <<>>
    /\ cleaned = <<>>
    /\ ci = 0
    /\ i = 0
    /\ chunks = <<>>
    /\ draws = 0
    /\ chunk_idx = 0
    /\ highlight_idx = 0
    /\ dialogue = <<>>
    /\ result = "none"

\* calls of get_model each thread makes
MaxCalls == 2

Threads == {1, 2}

ModelSizes == {"small", "medium"}

\* a model is identified by the size it was loaded for
ModelInit ==
    /\ g_model = "None"
    /\ g_model_size = "None"
    /\ gm = [t \in Threads |->
               [pc |-> "idle", model_size |-> "None", returned |-> "None", calls |-> 0]]
    /\ CaptionIdle
    /\ ServiceIdle
    /\ WorkerIdle

ModelFrame == UNCHANGED <<caption_vars, service_vars, worker_vars>>

\* line 15: thread t calls get_model(model_size)
GetModelCall(t) ==
    /\ gm[t].pc \in {"idle", "returned", "raised"}
    /\ gm[t].calls < MaxCalls
    /\ \E model_size \in ModelSizes :
          gm' = [gm EXCEPT ![t] = [pc |-> "l19", model_size |-> model_size,
                                   returned |-> "None", calls |-> @.calls + 1]]
    /\ UNCHANGED <<g_model, g_model_size>>
    /\ ModelFrame

\* line 19, left operand: _model is not None
TestModel(t) ==
    /\ gm[t].pc = "l19"
    /\ gm' = [gm EXCEPT ![t].pc = IF g_model # "None" THEN "l19_size" ELSE "l28"]
    /\ UNCHANGED <<g_model, g_model_size>>
    /\ ModelFrame

\* line 19, right operand: _model_size == model_size
TestSize(t) ==
    /\ gm[t].pc = "l19_size"
    /\ gm' = [gm EXCEPT ![t].pc = IF g_model_size = gm[t].model_size THEN "l20" ELSE "l28"]
    /\ UNCHANGED <<g_model, g_model_size>>
    /\ ModelFrame

\* lines 20 and 35: return _model reads the global again
ReturnModel(t) ==
    /\ gm[t].pc \in {"l20", "l35"}
    /\ gm' = [gm EXCEPT ![t].pc = "returned", ![t].returned = g_model]
    /\ UNCHANGED <<g_model, g_model_size>>
    /\ ModelFrame

\* lines 27-32: _model = WhisperModel(model_size, ...), on cuda or on cpu
LoadModel(t) ==
    /\ gm[t].pc = "l28"
    /\ g_model' = gm[t].model_size
    /\ gm' = [gm EXCEPT ![t].pc = "l34"]
    /\ UNCHANGED g_model_size
    /\ ModelFrame

\* line 31 raises as well: the exception leaves get_model, the globals stay
LoadRaise(t) ==
    /\ gm[t].pc = "l28"
    /\ gm' = [gm EXCEPT ![t].pc = "raised"]
    /\ UNCHANGED <<g_model, g_model_size>>
    /\ ModelFrame

\* line 34: _model_size = model_size
SetModelSize(t) ==
    /\ gm[t].pc = "l34"
    /\ g_model_size' = gm[t].model_size
    /\ gm' = [gm EXCEPT ![t].pc = "l35"]
    /\ UNCHANGED g_model
    /\ ModelFrame

ModelNext ==
    \E t \in Threads :
        \/ GetModelCall(t)
        \/ TestModel(t)
        \/ TestSize(t)
        \/ ReturnModel(t)
        \/ LoadModel(t)
        \/ LoadRaise(t)
        \/ SetModelSize(t)

ModelSpec == ModelInit /\ [][ModelNext]_vars

\* ---------------------------------------------------------------- C22
\* C22: whatever the interleaving of two threads calling get_model, a call
\* that has returned holds a model loaded for the size it asked for.
\* Violated: the globals are written and read without a lock; a thread
\* that loaded its model returns whatever _model holds at line 35, and the
\* test of line 19 can pair one thread's _model with another's _model_size.
C22_ReturnsRequestedSize ==
    \A t \in Threads : gm[t].pc = "returned" => gm[t].returned = gm[t].model_size

\* ===================================== subtitle_service.process_single_video
TempFiles == {"temp_input", "temp_ass", "temp_output"}

\* the steps of the try block, lines 178-191
AllSteps == <<"copy_input", "transcribe", "create_ass", "burn", "copy_output">>

\* output_path before the call: nothing there, or the result of an earlier run
ServiceInit ==
    /\ psv_pc = "idle"
    /\ temp_files = {}
    /\ output_file \in {"absent", "old"}
    /\ psv_result = "none"
    /\ steps = <<>>
    /\ CaptionIdle
    /\ ModelIdle
    /\ WorkerIdle

ServiceFrame == UNCHANGED <<caption_vars, model_vars, worker_vars>>

\* lines 162-175: process_single_video is called; the temp names are new
\* (uuid), so none of the three files exists
PsvCall ==
    /\ psv_pc = "idle"
    /\ psv_pc' = "mkdir_temp"
    /\ UNCHANGED <<temp_files, output_file, psv_result, steps>>
    /\ ServiceFrame

\* lines 168-169: temp_dir.mkdir(parents=True, exist_ok=True), before the try
MkdirTemp ==
    /\ psv_pc = "mkdir_temp"
    /\ psv_pc' = "copy_input"
    /\ UNCHANGED <<temp_files, output_file, psv_result, steps>>
    /\ ServiceFrame

\* line 169 raises OSError (the temp directory cannot be made, or its name
\* is taken by a file): no handler is around it
MkdirTempRaise ==
    /\ psv_pc = "mkdir_temp"
    /\ psv_pc' = "raised"
    /\ psv_result' = "raised"
    /\ UNCHANGED <<temp_files, output_file, steps>>
    /\ ServiceFrame

\* line 178: shutil.copy2(input_path, temp_input)
CopyInput ==
    /\ psv_pc = "copy_input"
    /\ temp_files' = temp_files \cup {"temp_input"}
    /\ steps' = Append(steps, "copy_input")
    /\ psv_pc' = "transcribe"
    /\ UNCHANGED <<output_file, psv_result>>
    /\ ServiceFrame

\* line 178 raises, before or after the destination was created
CopyInputFail ==
    /\ psv_pc = "copy_input"
    /\ temp_files' \in {temp_files, temp_files \cup {"temp_input"}}
    /\ psv_pc' = "except"
    /\ UNCHANGED <<output_file, psv_result, steps>>
    /\ ServiceFrame

\* line 181: words = transcribe_video(str(temp_input))
Transcribe ==
    /\ psv_pc = "transcribe"
    /\ steps' = Append(steps, "transcribe")
    /\ psv_pc' = "create_ass"
    /\ UNCHANGED <<temp_files, output_file, psv_result>>
    /\ ServiceFrame

TranscribeFail ==
    /\ psv_pc = "transcribe"
    /\ psv_pc' = "except"
    /\ UNCHANGED <<temp_files, output_file, psv_result, steps>>
    /\ ServiceFrame

\* line 184: create_ass_file(words, str(temp_ass))
CreateAss ==
    /\ psv_pc = "create_ass"
    /\ temp_files' = temp_files \cup {"temp_ass"}
    /\ steps' = Append(steps, "create_ass")
    /\ psv_pc' = "burn"
    /\ UNCHANGED <<output_file, psv_result>>
    /\ ServiceFrame

\* line 184 raises, in open() or after the file was opened for writing
CreateAssFail ==
    /\ psv_pc = "create_ass"
    /\ temp_files' \in {temp_files, temp_files \cup {"temp_ass"}}
    /\ psv_pc' = "except"
    /\ UNCHANGED <<output_file, psv_result, steps>>
    /\ ServiceFrame

\* line 187 and lines 130-155: ffmpeg ends with return code 0
BurnSubtitles ==
    /\ psv_pc = "burn"
    /\ temp_files' = temp_files \cup {"temp_output"}
    /\ steps' = Append(steps, "burn")
    /\ psv_pc' = "copy_output"
    /\ UNCHANGED <<output_file, psv_result>>
    /\ ServiceFrame

\* lines 149-153: subprocess.run raises or ffmpeg ends with another return
\* code, having written some of temp_output or nothing
BurnSubtitlesFail ==
    /\ psv_pc = "burn"
    /\ temp_files' \in {temp_files, temp_files \cup {"temp_output"}}
    /\ psv_pc' = "except"
    /\ UNCHANGED <<output_file, psv_result, steps>>
    /\ ServiceFrame

\* lines 190-193: make the output directory, copy temp_output to
\* output_path, return True (the finally clause runs before the return)
CopyOutput ==
    /\ psv_pc = "copy_output"
    /\ output_file' = "result"
    /\ steps' = Append(steps, "copy_output")
    /\ psv_result' = "True"
    /\ psv_pc' = "unlink_input"
    /\ UNCHANGED temp_files
    /\ ServiceFrame

\* line 190 or 191 raises: before anything was written, or in shutil.copy2
\* after some or all of the data was written to output_path
CopyOutputFail ==
    /\ psv_pc = "copy_output"
    /\ output_file' \in {output_file, "partial"}
    /\ psv_pc' = "except"
    /\ UNCHANGED <<temp_files, psv_result, steps>>
    /\ ServiceFrame

\* faulty variant of HandleException: False is returned at once, without
\* the finally clause
HandleException_NoCleanup ==
    /\ psv_pc = "except"
    /\ psv_result' = "False"
    /\ psv_pc' = "returned"
    /\ UNCHANGED <<temp_files, output_file, steps>>
    /\ ServiceFrame

\* lines 194-198: except Exception: log, return False (after the finally)
HandleException ==
    /\ psv_pc = "except"
    /\ psv_result' = "False"
    /\ psv_pc' = "unlink_input"
    /\ UNCHANGED <<temp_files, output_file, steps>>
    /\ ServiceFrame

\* the file visited by the loop of lines 201-203 at this position, and the
\* position after it
UnlinkTarget ==
    [unlink_input |-> "temp_input", unlink_ass |-> "temp_ass", unlink_output |-> "temp_output"]

UnlinkThen ==
    [unlink_input |-> "unlink_ass", unlink_ass |-> "unlink_output", unlink_output |-> "returned"]

\* lines 201-203: if f.exists(): f.unlink(); after the third file the
\* pending return takes place
Unlink ==
    /\ psv_pc \in DOMAIN UnlinkTarget
    /\ temp_files' = temp_files \ {UnlinkTarget[psv_pc]}
    /\ psv_pc' = UnlinkThen[psv_pc]
    /\ UNCHANGED <<output_file, psv_result, steps>>
    /\ ServiceFrame

\* line 203 raises (the file is still held open, or may not be removed): the
\* exception replaces the pending return
UnlinkRaise ==
    /\ psv_pc \in DOMAIN UnlinkTarget
    /\ UnlinkTarget[psv_pc] \in temp_files
    /\ psv_pc' = "raised"
    /\ psv_result' = "raised"
    /\ UNCHANGED <<temp_files, output_file, steps>>
    /\ ServiceFrame

ServiceNext ==
    \/ PsvCall
    \/ MkdirTemp
    \/ MkdirTempRaise
    \/ CopyInput
    \/ CopyInputFail
    \/ Transcribe
    \/ TranscribeFail
    \/ CreateAss
    \/ CreateAssFail
    \/ BurnSubtitles
    \/ BurnSubtitlesFail
    \/ CopyOutput
    \/ CopyOutputFail
    \/ HandleException
    \/ Unlink
    \/ UnlinkRaise

ServiceSpec == ServiceInit /\ [][ServiceNext]_vars

\* ---------------------------------------------------------------- C24
\* C24: process_single_video never raises; the steps completed are always
\* the first ones of the try block, in order; it returns True exactly when
\* all five were completed; and when it returns False nothing was copied
\* to output_path.
\* Violated: temp_dir.mkdir (line 169) is outside the try and f.unlink
\* (line 203) is in the finally clause, so their exceptions leave the
\* function; and a shutil.copy2 that fails after writing leaves a file at
\* output_path although False is returned.
C24_ReturnsWhetherAllStepsRan ==
    /\ psv_pc # "raised"
    /\ IsPrefix(steps, AllSteps)
    /\ psv_pc = "returned" => (psv_result = "True" <=> steps = AllSteps)
    /\ psv_pc = "returned" /\ psv_result = "False" => output_file \in {"absent", "old"}

\* ---------------------------------------------------------------- C25
\* C25: when process_single_video has returned, True or False, none of
\* temp_input, temp_ass and temp_output exists.
C25_TempFilesRemoved ==
    psv_pc = "returned" => /\ psv_result \in {"True", "False"}
                           /\ temp_files = {}

\* False was returned after the copy to output_path failed, when all
\* three temp files had been made
C25_Witness ==
    /\ psv_pc = "returned"
    /\ psv_result = "False"
    /\ steps = <<"copy_input", "transcribe", "create_ass", "burn">>
    /\ temp_files = {}

\* ============================================ gui.SubtitleWorker, SubtitleTab
\* videos selected for one run, and runs started from the tab
MaxVideos == 2

MaxRuns == 2

\* the tab as constructed: not busy, self.worker = None
WorkerInit ==
    /\ is_cancelled = FALSE
    /\ run_pc = "none"
    /\ run_locals = [total |-> 0, i |-> 0, success |-> 0, started |-> 0,
                     observed |-> FALSE, emitted |-> 0]
    /\ signals = <<>>
    /\ ui = [busy |-> FALSE, worker |-> "None", received |-> 0, runs |-> 0]
    /\ CaptionIdle
    /\ ModelIdle
    /\ ServiceIdle

WorkerFrame == UNCHANGED <<caption_vars, model_vars, service_vars>>

\* lines 465-481, start_processing with some input paths (the button is
\* enabled only when the tab is not busy): set_ui_busy(True), a new
\* SubtitleWorker (lines 117-121), worker.start()
StartProcessing ==
    /\ ~ui.busy
    /\ ui.runs < MaxRuns
    /\ \E total \in 1..MaxVideos :
          run_locals' = [total |-> total, i |-> 0, success |-> 0, started |-> 0,
                         observed |-> FALSE, emitted |-> 0]
    /\ is_cancelled' = FALSE
    /\ run_pc' = "start"
    /\ ui' = [busy |-> TRUE, worker |-> "worker", received |-> 0, runs |-> ui.runs + 1]
    /\ UNCHANGED signals
    /\ WorkerFrame

\* lines 483-485 and 123-124: cancel_processing (the cancel button is
\* enabled while busy): if self.worker: self.worker.cancel()
CancelProcessing ==
    /\ ui.busy
    /\ ui.worker # "None"
    /\ is_cancelled' = TRUE
    /\ UNCHANGED <<run_pc, run_locals, signals, ui>>
    /\ WorkerFrame

\* lines 127-131: run begins: import, total, success = 0
RunBegin ==
    /\ run_pc = "start"
    /\ run_pc' = "loop"
    /\ UNCHANGED <<is_cancelled, run_locals, signals, ui>>
    /\ WorkerFrame

\* line 128: the import raises
RunBeginRaise ==
    /\ run_pc = "start"
    /\ run_pc' = "except"
    /\ UNCHANGED <<is_cancelled, run_locals, signals, ui>>
    /\ WorkerFrame

\* faulty variant of LoopTest: a set flag is reported but the loop goes on
LoopTest_NoBreak ==
    /\ run_pc = "loop"
    /\ IF run_locals.i = run_locals.total
       THEN /\ run_pc' = "emit_finished"
            /\ UNCHANGED run_locals
       ELSE /\ run_pc' = "call"
            /\ run_locals' = [run_locals EXCEPT !.i = @ + 1,
                                                !.observed = @ \/ is_cancelled]
    /\ UNCHANGED <<is_cancelled, signals, ui>>
    /\ WorkerFrame

\* lines 133-136: the next item of the for loop, if self._is_cancelled: break
LoopTest ==
    /\ run_pc = "loop"
    /\ IF run_locals.i = run_locals.total
       THEN /\ run_pc' = "emit_finished"
            /\ UNCHANGED run_locals
       ELSE IF is_cancelled
       THEN /\ run_pc' = "emit_finished"
            /\ run_locals' = [run_locals EXCEPT !.i = @ + 1, !.observed = TRUE]
       ELSE /\ run_pc' = "call"
            /\ run_locals' = [run_locals EXCEPT !.i = @ + 1]
    /\ UNCHANGED <<is_cancelled, signals, ui>>
    /\ WorkerFrame

\* lines 138-143: progress and status are emitted, process_single_video is
\* called
CallProcess ==
    /\ run_pc = "call"
    /\ run_pc' = "in_call"
    /\ run_locals' = [run_locals EXCEPT !.started = @ + 1]
    /\ UNCHANGED <<is_cancelled, signals, ui>>
    /\ WorkerFrame

\* lines 143-147: process_single_video returns True or False
ProcessReturns ==
    /\ run_pc = "in_call"
    /\ \E ok \in BOOLEAN :
          run_locals' = [run_locals EXCEPT !.success = IF ok THEN @ + 1 ELSE @]
    /\ run_pc' = "loop"
    /\ UNCHANGED <<is_cancelled, signals, ui>>
    /\ WorkerFrame

\* line 143: process_single_video raises (subtitle_service.py lines 169, 203)
ProcessRaises ==
    /\ run_pc = "in_call"
    /\ run_pc' = "except"
    /\ UNCHANGED <<is_cancelled, run_locals, signals, ui>>
    /\ WorkerFrame

\* line 149: self.finished.emit(success, total), queued to the GUI thread
EmitFinished ==
    /\ run_pc = "emit_finished"
    /\ signals' = Append(signals, [signal |-> "finished", success |-> run_locals.success,
                                   total |-> run_locals.total])
    /\ run_locals' = [run_locals EXCEPT !.emitted = @ + 1]
    /\ run_pc' = "ended"
    /\ UNCHANGED <<is_cancelled, ui>>
    /\ WorkerFrame

\* lines 151-152: except Exception: self.error.emit(...)
EmitError ==
    /\ run_pc = "except"
    /\ signals' = Append(signals, [signal |-> "error", success |-> run_locals.success,
                                   total |-> run_locals.total])
    /\ run_locals' = [run_locals EXCEPT !.emitted = @ + 1]
    /\ run_pc' = "ended"
    /\ UNCHANGED <<is_cancelled, ui>>
    /\ WorkerFrame

\* lines 490-500 and 502-512: on_finished or on_error runs in the GUI
\* thread: set_ui_busy(False), self.worker = None
DeliverSignal ==
    /\ signals # <<>>
    /\ signals' = Tail(signals)
    /\ ui' = [ui EXCEPT !.busy = FALSE, !.worker = "None", !.received = @ + 1]
    /\ UNCHANGED <<is_cancelled, run_pc, run_locals>>
    /\ WorkerFrame

\* the statements of SubtitleWorker.run
RunStep ==
    \/ RunBegin
    \/ RunBeginRaise
    \/ LoopTest
    \/ CallProcess
    \/ ProcessReturns
    \/ ProcessRaises
    \/ EmitFinished
    \/ EmitError

WorkerNext ==
    \/ StartProcessing
    \/ CancelProcessing
    \/ RunStep
    \/ DeliverSignal

\* the worker thread keeps running and the event loop of the GUI thread
\* delivers queued signals; the user need not do anything
WorkerSpec ==
    WorkerInit /\ [][WorkerNext]_vars /\ WF_vars(RunStep) /\ WF_vars(DeliverSignal)

\* ---------------------------------------------------------------- C26
\* C26: however cancel() interleaves with run(): after an iteration has seen
\* the cancel flag set, this run starts no further process_single_video;
\* a run emits no terminal signal before it ends and exactly one (finished
\* or error) when it ends; success <= videos started <= total; the tab
\* receives at most one terminal signal per worker; and a busy tab is
\* eventually not busy.
C26_CancelAndTerminalSignal ==
    /\ [][run_locals.observed /\ ui'.runs = ui.runs =>
              /\ run_locals'.started = run_locals.started
              /\ run_pc' \notin {"call", "in_call"}]_vars
    /\ [](/\ run_locals.emitted = (IF run_pc = "ended" THEN 1 ELSE 0)
          /\ run_locals.success <= run_locals.started
          /\ run_locals.started <= run_locals.total
          /\ ui.received <= 1
          /\ \A k \in 1..Len(signals) :
                /\ signals[k].signal \in {"finished", "error"}
                /\ signals[k].success <= signals[k].total)
    /\ (ui.busy ~> ~ui.busy)

\* a run of two videos was cancelled while the first was processed: the
\* second was not started, finished was emitted and the tab is idle again
C26_Witness ==
    /\ run_pc = "ended"
    /\ run_locals.observed
    /\ run_locals.total = 2
    /\ run_locals.started = 1
    /\ run_locals.emitted = 1
    /\ signals = <<>>
    /\ ~ui.busy
    /\ ui.received = 1

====
